---- MODULE Spec2Model ----
(***************************************************************************)
(* Model of src/src/podman_ai_lab_stack/podman_ai_lab.py: the              *)
(* PodmanAILabInferenceAdapter (initialize, completion, chat_completion,   *)
(* _get_params, the streaming and non-streaming paths) and                 *)
(* convert_message_to_openai_dict_for_podman_ai_lab.                       *)
(*                                                                         *)
(* Python values are encoded as follows.  An Optional value is a tuple:    *)
(* None is <<>> and a present value v is <<v>>.  A dict is a function      *)
(* whose DOMAIN is its key set.  A text is a sequence of tokens, so that   *)
(* concatenation is \o.  A content (InterleavedContent) is a record        *)
(* [list, items]: list says whether the Python value is a list, items are  *)
(* its content items (a single one when it is not a list).                 *)
(***************************************************************************)
EXTENDS Integers, Sequences, FiniteSets, TLC

VARIABLES
    url,            \* self.url
    ctorUrl,        \* the url argument __init__ was given
    endpoint,       \* the external service: "up", "unreachable" or "faulty"
    initPc,         \* position of initialize(): "new", "probing", "ready", "failed"
    initError,      \* Optional: the exception initialize() raised
    inits,          \* number of initialize() calls made
    probes,         \* number of client.list() calls made
    pc,             \* position of the current completion / chat_completion call
    request,        \* Optional: the request envelope of the current call
    params,         \* the wire parameters _get_params returned (<<>> before)
    transportCalls, \* the client operations called for the current call, in order
    script,         \* the response sequence the transport produced for the call
    pos,            \* number of transport chunks the stream has consumed
    delivered,      \* the chunks the caller received from the lazy sequence
    result,         \* Optional: the materialized result returned to the caller
    error,          \* Optional: the exception raised to the caller
    consuming       \* whether the caller has started iterating the lazy sequence

vars == <<url, ctorUrl, endpoint, initPc, initError, inits, probes, pc, request,
          params, transportCalls, script, pos, delivered, result, error,
          consuming>>

callVars == <<pc, request, params, transportCalls, script, pos, delivered,
              result, error, consuming>>

initVars == <<initPc, initError, inits, probes>>

(***************************************************************************)
(* Bounds of the model.                                                    *)
(***************************************************************************)
MaxMsgs == 2
MaxChunks == 2
MaxTokens == 1
MaxInits == 2

(***************************************************************************)
(* Python encodings.                                                       *)
(***************************************************************************)
None == <<>>

Some(v) == <<v>>

Concat(texts) ==
    LET RECURSIVE cat(_)
        cat(i) == IF i > Len(texts) THEN <<>> ELSE texts[i] \o cat(i + 1)
    IN cat(1)

(***************************************************************************)
(* The inputs the host and the transport can supply.                       *)
(***************************************************************************)
Urls == {"http://localhost:10434", "http://127.0.0.1:8080"}

Endpoints == {"up", "unreachable", "faulty"}

TextContentItem(t) == [type |-> "text", text |-> t]

ImageContentItem(i) == [type |-> "image", image |-> i]

\* A plain Python str used as content.
Str(t) == [type |-> "str", text |-> t]

Single(item) == [list |-> FALSE, items |-> <<item>>]

List(items) == [list |-> TRUE, items |-> items]

Contents ==
    { Single(Str("x")),
      Single(ImageContentItem("img1")),
      List(<<>>),
      List(<<TextContentItem("x"), TextContentItem("y")>>),
      List(<<TextContentItem("x"), ImageContentItem("img1")>>),
      List(<<ImageContentItem("img2"), TextContentItem("y")>>) }

Message(r, c) == [role |-> r, content |-> c]

SampleMessages ==
    { Message("user", Single(Str("x"))),
      Message("system", List(<<>>)),
      Message("assistant", List(<<TextContentItem("x"), TextContentItem("y")>>)),
      Message("user", List(<<TextContentItem("x"), ImageContentItem("img1")>>)),
      Message("user", Single(ImageContentItem("img1"))),
      Message("assistant", List(<<ImageContentItem("img2"), TextContentItem("y")>>)) }

MessageLists == UNION { [1..n -> SampleMessages] : n \in 0..MaxMsgs }

\* What get_sampling_options returns: a dict of sampling options.
OptionKeys == {"max_tokens", "temperature"}

OptionValues == {None} \cup { Some(n) : n \in 0..MaxTokens }

OptionMaps ==
    { o \in UNION { [K -> OptionValues] : K \in SUBSET OptionKeys } :
        "temperature" \in DOMAIN o => o["temperature"] = Some(0) }

\* request.response_format: None, or an object with a type.
Formats ==
    { None,
      Some([type |-> "json_schema", json_schema |-> "schema"]),
      Some([type |-> "grammar"]),
      Some([type |-> "regex"]) }

\* model_id values chat_completion is called with.
ModelNames == {"", "llama3"}

\* self.model_store: model_id -> provider_resource_id.
ModelStore == [granite |-> "granite3", unnamed |-> ""]

ChatCompletionRequests ==
    [kind : {"chat"}, model : ModelNames, messages : MessageLists,
     sampling_options : OptionMaps, response_format : Formats, stream : BOOLEAN]

CompletionRequests ==
    [kind : {"completion"}, model : {ModelStore[m] : m \in DOMAIN ModelStore},
     content : Contents, sampling_options : OptionMaps,
     response_format : Formats, stream : BOOLEAN]

\* What the transport generates for one call: chunk i carries token i; only
\* the last chunk may have done set.
Scripts ==
    UNION { { [i \in 1..n |-> [text |-> <<i>>,
                               done |-> (i = n /\ d),
                               done_reason |-> IF i = n THEN Some(r) ELSE None]] :
                d \in BOOLEAN, r \in {"stop", "length"} } :
            n \in 1..MaxChunks }

(***************************************************************************)
(* Parameter construction: _get_params and its helpers.                    *)
(***************************************************************************)
Ok(v) == [ok |-> TRUE, value |-> v]

Raise(t, a) == [ok |-> FALSE, error |-> [type |-> t, arg |-> a]]

\* AddNumPredict testing the truth of max_tokens instead of `is not None`.
AddNumPredictTruthy(sampling_options) ==
    IF "max_tokens" \in DOMAIN sampling_options
       /\ sampling_options["max_tokens"] # None
       /\ sampling_options["max_tokens"] # Some(0)
    THEN ("num_predict" :> sampling_options["max_tokens"]) @@ sampling_options
    ELSE sampling_options

\* Lines 188-189: num_predict is set from max_tokens when it is not None.
AddNumPredict(sampling_options) ==
    IF "max_tokens" \in DOMAIN sampling_options
       /\ sampling_options["max_tokens"] # None
    THEN ("num_predict" :> sampling_options["max_tokens"]) @@ sampling_options
    ELSE sampling_options

\* request_has_media: some content item of the request is an image.
ContentHasMedia(content) ==
    \E i \in 1..Len(content.items) : content.items[i].type = "image"

\* RequestHasMedia looking at chat messages only.
RequestHasMediaChatOnly(req) ==
    /\ req.kind = "chat"
    /\ \E i \in 1..Len(req.messages) : ContentHasMedia(req.messages[i].content)

RequestHasMedia(req) ==
    IF req.kind = "chat"
    THEN \E i \in 1..Len(req.messages) : ContentHasMedia(req.messages[i].content)
    ELSE ContentHasMedia(req.content)

\* convert_image_content_to_url(content, download=True, include_format=False)
ConvertImageContentToUrl(item) == <<"url", item.image>>

\* ConvertContent giving an image entry an (empty) text field as well.
ConvertContentWithText(role, item) ==
    IF item.type = "image"
    THEN [role |-> role, images |-> <<ConvertImageContentToUrl(item)>>,
          content |-> ""]
    ELSE [role |-> role, content |-> item.text]

\* _convert_content, lines 343-355
ConvertContent(role, item) ==
    IF item.type = "image"
    THEN [role |-> role, images |-> <<ConvertImageContentToUrl(item)>>]
    ELSE [role |-> role, content |-> item.text]

\* convert_message_to_openai_dict_for_podman_ai_lab, lines 342-360
ConvertMessage(message) ==
    IF message.content.list
    THEN [i \in 1..Len(message.content.items) |->
            ConvertContent(message.role, message.content.items[i])]
    ELSE <<ConvertContent(message.role, message.content.items[1])>>

\* Line 198: flatten the list of lists.
FlattenLists(contents) == Concat(contents)

\* The texts of a content, in order (images carry no text).
ContentText(content) ==
    LET n == Len(content.items)
        RECURSIVE txt(_)
        txt(i) == IF i > n THEN <<>>
                  ELSE (IF content.items[i].type = "image" THEN <<>>
                        ELSE <<content.items[i].text>>) \o txt(i + 1)
    IN txt(1)

\* chat_completion_request_to_prompt: one flat prompt, each message's role
\* header followed by its text.
ChatCompletionRequestToPrompt(req, llama_model) ==
    Concat([i \in 1..Len(req.messages) |->
              <<req.messages[i].role>> \o ContentText(req.messages[i].content)])

\* completion_request_to_prompt
CompletionRequestToPrompt(req) == ContentText(req.content)

\* InputDict taking the messages path only when media is present.
InputDictMediaOnly(req) ==
    LET media_present == RequestHasMedia(req)
        llama_model == req.model
    IN  IF req.kind = "chat"
        THEN IF media_present
             THEN Ok("messages" :>
                       FlattenLists([i \in 1..Len(req.messages) |->
                                        ConvertMessage(req.messages[i])]))
             ELSE Ok(("prompt" :> ChatCompletionRequestToPrompt(req, llama_model))
                     @@ ("raw" :> TRUE))
        ELSE IF media_present
             THEN Raise("AssertionError",
                        "Ollama does not support media for Completion requests")
             ELSE Ok(("raw" :> TRUE) @@ ("prompt" :> CompletionRequestToPrompt(req)))

\* Lines 191-208: the prompt or the messages of the wire parameters.
InputDict(req) ==
    LET media_present == RequestHasMedia(req)
        llama_model == req.model
    IN  IF req.kind = "chat"
        THEN IF media_present \/ llama_model = ""
             THEN Ok("messages" :>
                       FlattenLists([i \in 1..Len(req.messages) |->
                                        ConvertMessage(req.messages[i])]))
             ELSE Ok(("prompt" :> ChatCompletionRequestToPrompt(req, llama_model))
                     @@ ("raw" :> TRUE))
        ELSE IF media_present
             THEN Raise("AssertionError",
                        "Ollama does not support media for Completion requests")
             ELSE Ok(("raw" :> TRUE) @@ ("prompt" :> CompletionRequestToPrompt(req)))

\* FormatDict ignoring the kinds it does not know.
FormatDictLenient(req) ==
    IF req.response_format = None THEN Ok(<<>>)
    ELSE LET fmt == req.response_format[1]
         IN  IF fmt.type = "json_schema" THEN Ok("format" :> fmt.json_schema)
             ELSE Ok(<<>>)

\* Lines 210-216: the response format.
FormatDict(req) ==
    IF req.response_format = None THEN Ok(<<>>)
    ELSE LET fmt == req.response_format[1]
         IN  IF fmt.type = "json_schema" THEN Ok("format" :> fmt.json_schema)
             ELSE IF fmt.type = "grammar"
             THEN Raise("NotImplementedError",
                        "Grammar response format is not supported")
             ELSE Raise("ValueError", fmt.type)

\* GetParams leaving input_dict out of the parameters.
GetParamsNoInput(req) ==
    LET sampling_options == AddNumPredict(req.sampling_options)
        input == InputDict(req)
        format == FormatDict(req)
    IN  IF ~input.ok THEN input
        ELSE IF ~format.ok THEN format
        ELSE Ok(("stream" :> req.stream) @@ ("options" :> sampling_options)
                @@ format.value @@ ("model" :> req.model))

\* _get_params, lines 184-226
GetParams(req) ==
    LET sampling_options == AddNumPredict(req.sampling_options)
        input == InputDict(req)
        format == FormatDict(req)
    IN  IF ~input.ok THEN input
        ELSE IF ~format.ok THEN format
        ELSE Ok(("stream" :> req.stream) @@ ("options" :> sampling_options)
                @@ format.value @@ input.value @@ ("model" :> req.model))

(***************************************************************************)
(* The transport (ollama.AsyncClient) and the conversion of its responses. *)
(***************************************************************************)
\* client.list() against the endpoint.
ProbeResult(ep) ==
    IF ep = "up" THEN "ok"
    ELSE IF ep = "unreachable" THEN "ConnectionError"
    ELSE "ResponseError"

\* The complete response the transport returns when stream is not set.
Aggregate(s) ==
    [text |-> Concat([i \in 1..Len(s) |-> s[i].text]),
     done |-> s[Len(s)].done,
     done_reason |-> s[Len(s)].done_reason]

\* The wire shape of one response of client.generate / client.chat.
WireResponse(op, c) ==
    IF op = "chat"
    THEN [message |-> [content |-> c.text], done |-> c.done,
          done_reason |-> c.done_reason]
    ELSE [response |-> c.text, done |-> c.done, done_reason |-> c.done_reason]

\* What the awaited client call evaluates to: with stream set the sequence
\* of chunks, without it the one complete response.
TransportResponses(op, s, stream) ==
    IF stream THEN [i \in 1..Len(s) |-> WireResponse(op, s[i])]
    ELSE <<WireResponse(op, Aggregate(s))>>

\* StreamCompletionChoice passing done_reason on whatever done says.
StreamCompletionChoiceAnyReason(chunk) ==
    [finish_reason |-> chunk.done_reason, text |-> chunk.response]

\* Lines 128-131
StreamCompletionChoice(chunk) ==
    [finish_reason |-> IF chunk.done THEN chunk.done_reason ELSE None,
     text |-> chunk.response]

\* Lines 144-147
NonstreamCompletionChoice(r) ==
    [finish_reason |-> IF r.done THEN r.done_reason ELSE None,
     text |-> r.response]

\* Lines 235-244
NonstreamChatChoice(r) ==
    IF "message" \in DOMAIN r
    THEN [finish_reason |-> IF r.done THEN r.done_reason ELSE None,
          text |-> r.message.content]
    ELSE [finish_reason |-> IF r.done THEN r.done_reason ELSE None,
          text |-> r.response]

\* Lines 259-268
StreamChatChoice(chunk) ==
    IF "message" \in DOMAIN chunk
    THEN [finish_reason |-> IF chunk.done THEN chunk.done_reason ELSE None,
          text |-> chunk.message.content]
    ELSE [finish_reason |-> IF chunk.done THEN chunk.done_reason ELSE None,
          text |-> chunk.response]

\* TransportOp choosing the operation by the kind of request alone.
TransportOpByKind(req, p) ==
    IF req.kind = "chat" THEN "chat" ELSE "generate"

\* Lines 126, 142, 230-233, 254-257: the client operation a call uses.
TransportOp(req, p) ==
    IF req.kind = "chat" /\ "messages" \in DOMAIN p THEN "chat" ELSE "generate"

\* The body of _nonstream_* / _stream_* up to its await of the client:
\* _get_params, then the call of the client operation.
RunToTransport(req) ==
    LET g == GetParams(req)
    IN  IF g.ok
        THEN [pc |-> "awaiting", params |-> g.value,
              transportCalls |-> <<TransportOp(req, g.value)>>, error |-> None]
        ELSE [pc |-> "failed", params |-> <<>>, transportCalls |-> <<>>,
              error |-> Some(g.error)]

\* Dispatch awaiting the streaming path as it does the non-streaming one.
DispatchEager(req) == RunToTransport(req)

\* Lines 117-120 and 179-182: with stream set the async generator is
\* returned unstarted, otherwise the non-streaming path is awaited.
Dispatch(req) ==
    IF req.stream
    THEN [pc |-> "lazy", params |-> <<>>, transportCalls |-> <<>>, error |-> None]
    ELSE RunToTransport(req)

\* InitializeOutcome swallowing the connection error.
InitializeOutcomeSwallow(probe) ==
    IF probe \in {"ok", "ConnectionError"} THEN [pc |-> "ready", error |-> None]
    ELSE [pc |-> "failed",
          error |-> Some([type |-> probe, arg |-> "", cause |-> ""])]

\* Lines 86-89: what initialize() makes of the probe.
InitializeOutcome(probe) ==
    IF probe = "ok" THEN [pc |-> "ready", error |-> None]
    ELSE IF probe = "ConnectionError"
    THEN [pc |-> "failed",
          error |-> Some([type |-> "RuntimeError",
                          arg |-> "Podman AI Lab Server is not running, start it using Podman Desktop",
                          cause |-> "ConnectionError"])]
    ELSE [pc |-> "failed",
          error |-> Some([type |-> probe, arg |-> "", cause |-> ""])]

(***************************************************************************)
(* The state machine.                                                      *)
(***************************************************************************)
Init ==
    /\ url \in Urls
    /\ ctorUrl = url
    /\ endpoint \in Endpoints
    /\ initPc = "new"
    /\ initError = None
    /\ inits = 0
    /\ probes = 0
    /\ pc = "idle"
    /\ request = None
    /\ params = <<>>
    /\ transportCalls = <<>>
    /\ script = <<>>
    /\ pos = 0
    /\ delivered = <<>>
    /\ result = None
    /\ error = None
    /\ consuming = FALSE

\* initialize(), lines 84-87: log, then await self.client.list().
InitializeBegin ==
    /\ initPc \in {"new", "failed"}
    /\ inits < MaxInits
    /\ initPc' = "probing"
    /\ initError' = None
    /\ inits' = inits + 1
    /\ probes' = probes + 1
    /\ UNCHANGED <<url, ctorUrl, endpoint, callVars>>

\* initialize(), lines 87-89: the probe returns or raises.
InitializeEnd ==
    /\ initPc = "probing"
    /\ LET out == InitializeOutcome(ProbeResult(endpoint))
       IN  /\ initPc' = out.pc
           /\ initError' = out.error
    /\ UNCHANGED <<url, ctorUrl, endpoint, inits, probes, callVars>>

Start(req) ==
    LET d == Dispatch(req)
    IN  /\ request' = Some(req)
        /\ pc' = d.pc
        /\ params' = d.params
        /\ transportCalls' = d.transportCalls
        /\ error' = d.error
        /\ UNCHANGED <<script, pos, delivered, result, consuming>>

\* completion(), lines 97-120
Completion ==
    /\ pc = "idle"
    /\ initPc = "ready"
    /\ \E model_id \in DOMAIN ModelStore, content \in Contents,
          sampling_options \in OptionMaps, response_format \in Formats,
          stream \in BOOLEAN :
          Start([kind |-> "completion", model |-> ModelStore[model_id],
                 content |-> content, sampling_options |-> sampling_options,
                 response_format |-> response_format, stream |-> stream])
    /\ UNCHANGED <<url, ctorUrl, endpoint, initVars>>

\* chat_completion(), lines 154-182
ChatCompletion ==
    /\ pc = "idle"
    /\ initPc = "ready"
    /\ \E model_id \in ModelNames, messages \in MessageLists,
          sampling_options \in OptionMaps, response_format \in Formats,
          stream \in BOOLEAN :
          Start([kind |-> "chat", model |-> model_id, messages |-> messages,
                 sampling_options |-> sampling_options,
                 response_format |-> response_format, stream |-> stream])
    /\ UNCHANGED <<url, ctorUrl, endpoint, initVars>>

\* The caller's first __anext__ on the generator of _stream_completion or
\* _stream_chat_completion: lines 123-126 and 251-257.
StreamStart ==
    /\ pc = "lazy"
    /\ LET r == RunToTransport(request[1])
       IN  /\ pc' = r.pc
           /\ params' = r.params
           /\ transportCalls' = transportCalls \o r.transportCalls
           /\ error' = r.error
    /\ consuming' = TRUE
    /\ UNCHANGED <<url, ctorUrl, endpoint, initVars, request, script, pos,
                   delivered, result>>

\* The awaited client.generate / client.chat returns.  Without stream the
\* result is built and returned: lines 142-152 and 230-248.
TransportReturn ==
    /\ pc = "awaiting"
    /\ \E s \in Scripts :
         LET req == request[1]
             op == transportCalls[Len(transportCalls)]
             r == TransportResponses(op, s, FALSE)[1]
         IN  /\ script' = s
             /\ IF req.stream
                THEN /\ pc' = "streaming"
                     /\ result' = result
                ELSE /\ pc' = "returned"
                     /\ result' = Some(IF req.kind = "chat"
                                       THEN NonstreamChatChoice(r)
                                       ELSE NonstreamCompletionChoice(r))
    /\ UNCHANGED <<url, ctorUrl, endpoint, initVars, request, params,
                   transportCalls, pos, delivered, error, consuming>>

\* The awaited client call raises: the exception reaches the caller.
TransportRaise ==
    /\ pc = "awaiting"
    /\ pc' = "failed"
    /\ error' = Some([type |-> "ResponseError", arg |-> "transport"])
    /\ UNCHANGED <<url, ctorUrl, endpoint, initVars, request, params,
                   transportCalls, script, pos, delivered, result, consuming>>

\* One round of `async for chunk in s`: lines 127-138 and 258-275.
StreamYield ==
    /\ pc = "streaming"
    /\ pos < Len(script)
    /\ LET req == request[1]
           op == transportCalls[Len(transportCalls)]
           chunk == TransportResponses(op, script, TRUE)[pos + 1]
       IN  delivered' = Append(delivered,
                               IF req.kind = "chat" THEN StreamChatChoice(chunk)
                               ELSE StreamCompletionChoice(chunk))
    /\ pos' = pos + 1
    /\ UNCHANGED <<url, ctorUrl, endpoint, initVars, pc, request, params,
                   transportCalls, script, result, error, consuming>>

\* The transport's sequence is exhausted: the generator ends.
StreamEnd ==
    /\ pc = "streaming"
    /\ pos = Len(script)
    /\ pc' = "exhausted"
    /\ UNCHANGED <<url, ctorUrl, endpoint, initVars, request, params,
                   transportCalls, script, pos, delivered, result, error,
                   consuming>>

\* The caller is done with the call; the adapter keeps nothing of it.
Release ==
    /\ pc \in {"lazy", "returned", "exhausted", "failed"}
    /\ pc' = "idle"
    /\ request' = None
    /\ params' = <<>>
    /\ transportCalls' = <<>>
    /\ script' = <<>>
    /\ pos' = 0
    /\ delivered' = <<>>
    /\ result' = None
    /\ error' = None
    /\ consuming' = FALSE
    /\ UNCHANGED <<url, ctorUrl, endpoint, initVars>>

Next ==
    \/ InitializeBegin
    \/ InitializeEnd
    \/ Completion
    \/ ChatCompletion
    \/ StreamStart
    \/ TransportReturn
    \/ TransportRaise
    \/ StreamYield
    \/ StreamEnd
    \/ Release

Spec == Init /\ [][Next]_vars

(***************************************************************************)
(* Properties.                                                             *)
(***************************************************************************)
Req == request[1]

InCall == request # None

\* _get_params has returned for the current call.
Built == params # <<>>

\* _get_params has run for the current call (returned or raised).
ParamsRun == InCall /\ pc \notin {"idle", "lazy"}

NoMedia(req) ==
    \A i \in 1..Len(req.messages) :
        \A j \in 1..Len(req.messages[i].content.items) :
            req.messages[i].content.items[j].type # "image"

\* The content items of a message list, each with the role of its message,
\* message by message and in the order of each message's content.
RECURSIVE ItemsOf(_)
ItemsOf(messages) ==
    IF messages = <<>> THEN <<>>
    ELSE LET m == Head(messages)
         IN  [j \in 1..Len(m.content.items) |->
                [role |-> m.role, item |-> m.content.items[j]]]
             \o ItemsOf(Tail(messages))

FormatType(req) ==
    IF req.response_format = None THEN "none" ELSE req.response_format[1].type

\* C1: whenever _get_params has returned, for any kind of request, the wire
\* parameters hold exactly one of the keys prompt and messages.
C1_ExactlyOneOfPromptAndMessages ==
    Built => (("prompt" \in DOMAIN params) # ("messages" \in DOMAIN params))

C1_Witness ==
    /\ Built
    /\ Req.kind = "chat"
    /\ Req.model = ""
    /\ NoMedia(Req)
    /\ Len(Req.messages) = MaxMsgs
    /\ "messages" \in DOMAIN params

\* C2 as claimed: for a chat request with only text content (and at least
\* one message) the wire parameters hold messages and no prompt, one entry
\* per request message, each entry with role and content.
C2_TextOnlyChatSendsMessages ==
    (Built /\ Req.kind = "chat" /\ NoMedia(Req) /\ Req.messages # <<>>) =>
        /\ "messages" \in DOMAIN params
        /\ "prompt" \notin DOMAIN params
        /\ Len(params.messages) = Len(Req.messages)
        /\ \A k \in 1..Len(params.messages) :
              DOMAIN params.messages[k] = {"role", "content"}

\* C2 as amended: for a chat request with only text content and an empty
\* model name the wire parameters hold messages and no prompt, one entry per
\* content item (so one per message whose content is a single value or a
\* one-item list), each entry with role and content and nothing else.
C2_TextOnlyChatEmptyModelSendsMessages ==
    (Built /\ Req.kind = "chat" /\ NoMedia(Req) /\ Req.model = "") =>
        /\ "messages" \in DOMAIN params
        /\ "prompt" \notin DOMAIN params
        /\ Len(params.messages) = Len(ItemsOf(Req.messages))
        /\ (\A i \in 1..Len(Req.messages) :
               Len(Req.messages[i].content.items) = 1)
           => Len(params.messages) = Len(Req.messages)
        /\ \A k \in 1..Len(params.messages) :
              /\ DOMAIN params.messages[k] = {"role", "content"}
              /\ params.messages[k].role = ItemsOf(Req.messages)[k].role
              /\ params.messages[k].content = ItemsOf(Req.messages)[k].item.text

C2_Witness ==
    /\ Built
    /\ Req.kind = "chat"
    /\ Req.model = ""
    /\ NoMedia(Req)
    /\ Len(Req.messages) = 2
    /\ Len(params.messages) = 3

\* C3: for a chat request with no media and a non-empty model name,
\* _get_params returns unless the response format is refused, the wire
\* parameters it returns hold raw = true and a flat prompt and no messages,
\* and the request goes to the transport's generate operation, never chat.
C3_TextChatWithModelSendsRawPrompt ==
    (InCall /\ Req.kind = "chat" /\ NoMedia(Req) /\ Req.model # "") =>
        /\ "chat" \notin { transportCalls[i] : i \in 1..Len(transportCalls) }
        /\ (ParamsRun /\ FormatType(Req) \in {"none", "json_schema"}) => Built
        /\ Built =>
              /\ "raw" \in DOMAIN params
              /\ params.raw = TRUE
              /\ "prompt" \in DOMAIN params
              /\ Len(params.prompt) >= Len(Req.messages)
              /\ \A k \in 1..Len(params.prompt) :
                    params.prompt[k] \in {"user", "system", "assistant", "x", "y"}
              /\ "messages" \notin DOMAIN params
              /\ transportCalls = <<"generate">>

C3_Witness ==
    /\ pc = "streaming"
    /\ Req.kind = "chat"
    /\ NoMedia(Req)
    /\ Req.model = "llama3"
    /\ Len(Req.messages) = 2
    /\ transportCalls = <<"generate">>

\* C4: a raw completion request with image content never reaches the
\* transport and delivers nothing: without stream the call has failed, with
\* stream the sequence fails as soon as it is consumed.
C4_MediaCompletionFailsBeforeTransport ==
    (InCall /\ Req.kind = "completion" /\ ContentHasMedia(Req.content)) =>
        /\ transportCalls = <<>>
        /\ params = <<>>
        /\ delivered = <<>>
        /\ result = None
        /\ pc \in {"lazy", "failed"}
        /\ pc = "lazy" => (Req.stream /\ ~consuming)
        /\ pc = "failed" => error[1].type = "AssertionError"

C4_Witness ==
    /\ InCall
    /\ Req.kind = "completion"
    /\ ContentHasMedia(Req.content)
    /\ Req.stream
    /\ Req.response_format = None
    /\ pc = "failed"

\* C5 as claimed: once parameter construction has run, a request with a
\* grammar response format has failed with NotImplementedError and one with
\* an unknown kind with ValueError naming the kind; no transport call is
\* made and nothing is delivered.
C5_RefusedFormatRaisesItsError ==
    (InCall /\ FormatType(Req) \notin {"none", "json_schema"}) =>
        /\ transportCalls = <<>>
        /\ delivered = <<>>
        /\ result = None
        /\ ParamsRun =>
              /\ pc = "failed"
              /\ FormatType(Req) = "grammar" =>
                    error[1].type = "NotImplementedError"
              /\ FormatType(Req) # "grammar" =>
                    error[1] = [type |-> "ValueError", arg |-> FormatType(Req)]

\* C5 as amended: such a request always fails without a transport call and
\* without a partial result, and the error is the one of the format unless
\* the request is a raw completion with image content, which has already
\* failed on the media assertion.
C5_RefusedFormatFails ==
    (InCall /\ FormatType(Req) \notin {"none", "json_schema"}) =>
        /\ transportCalls = <<>>
        /\ delivered = <<>>
        /\ result = None
        /\ ParamsRun =>
              /\ pc = "failed"
              /\ (Req.kind = "completion" /\ ContentHasMedia(Req.content)) =>
                    error[1].type = "AssertionError"
              /\ ~(Req.kind = "completion" /\ ContentHasMedia(Req.content)) =>
                    /\ FormatType(Req) = "grammar" =>
                          error[1].type = "NotImplementedError"
                    /\ FormatType(Req) # "grammar" =>
                          error[1] = [type |-> "ValueError",
                                      arg |-> FormatType(Req)]

C5_Witness ==
    /\ InCall
    /\ Req.kind = "chat"
    /\ Req.stream
    /\ consuming
    /\ FormatType(Req) = "regex"
    /\ pc = "failed"
    /\ error[1].type = "ValueError"

\* C6: for one transport response sequence the streamed completion and the
\* non-streamed one agree: the text of the one result is the concatenation
\* of the chunk texts, and the finish reason is that of the last chunk (the
\* done_reason if done is set, none otherwise).
C6_StreamAndNonstreamCompletionAgree ==
    (InCall /\ Req.kind = "completion") =>
        /\ pc = "exhausted" =>
              LET r == NonstreamCompletionChoice(
                           TransportResponses("generate", script, FALSE)[1])
              IN  /\ Concat([i \in 1..Len(delivered) |-> delivered[i].text])
                     = r.text
                  /\ delivered[Len(delivered)].finish_reason = r.finish_reason
                  /\ r.finish_reason = IF script[Len(script)].done
                                       THEN script[Len(script)].done_reason
                                       ELSE None
        /\ pc = "returned" =>
              LET s == TransportResponses("generate", script, TRUE)
                  c == [i \in 1..Len(s) |-> StreamCompletionChoice(s[i])]
              IN  /\ result[1].text = Concat([i \in 1..Len(c) |-> c[i].text])
                  /\ result[1].finish_reason = c[Len(c)].finish_reason

C6_Witness ==
    /\ InCall
    /\ Req.kind = "completion"
    /\ pc = "exhausted"
    /\ Len(delivered) = MaxChunks
    /\ delivered[Len(delivered)].finish_reason = None

\* C7: against an unreachable endpoint initialize() never completes, every
\* finished call of it has raised the RuntimeError that tells the operator
\* to start the service, each call makes one probe, and the URL stays the
\* one the adapter was constructed with.
C7_UnreachableInitializeFails ==
    endpoint = "unreachable" =>
        /\ initPc # "ready"
        /\ probes = inits
        /\ url = ctorUrl
        /\ (initPc = "failed") =>
              /\ initError # None
              /\ initError[1].type = "RuntimeError"
              /\ initError[1].cause = "ConnectionError"
        /\ (initPc = "new") = (inits = 0)

C7_Witness ==
    /\ endpoint = "unreachable"
    /\ initPc = "failed"
    /\ inits = 1
    /\ probes = 1

\* C8: the options of the wire parameters hold num_predict equal to the
\* max_tokens value when the sampling options hold one, hold no num_predict
\* when they hold none, and keep every sampling option as it was.
C8_MaxTokensBecomesNumPredict ==
    Built =>
        LET o == Req.sampling_options
            w == params.options
            has == "max_tokens" \in DOMAIN o /\ o["max_tokens"] # None
        IN  /\ has => ("num_predict" \in DOMAIN w
                       /\ w["num_predict"] = o["max_tokens"])
            /\ ~has => "num_predict" \notin DOMAIN w
            /\ DOMAIN o \subseteq DOMAIN w
            /\ \A k \in DOMAIN o : w[k] = o[k]

C8_Witness ==
    /\ Built
    /\ "max_tokens" \in DOMAIN Req.sampling_options
    /\ Req.sampling_options["max_tokens"] = Some(0)
    /\ params.options["num_predict"] = Some(0)

\* C9: on the messages path of a chat request the wire messages are, in
\* order, one entry per content item of every message: the entry has the
\* role of its message, an image item gives images and no text field, any
\* other item gives its text in content and no images field.
C9_MessagesAreTheItemsInOrder ==
    (Built /\ Req.kind = "chat" /\ "messages" \in DOMAIN params) =>
        LET items == ItemsOf(Req.messages)
            wire == params.messages
        IN  /\ ~NoMedia(Req) \/ Req.model = ""
            /\ Len(wire) = Len(items)
            /\ \A k \in 1..Len(items) :
                  /\ wire[k].role = items[k].role
                  /\ items[k].item.type = "image" =>
                        /\ DOMAIN wire[k] = {"role", "images"}
                        /\ Len(wire[k].images) = 1
                        /\ wire[k].images[1][2] = items[k].item.image
                  /\ items[k].item.type # "image" =>
                        /\ DOMAIN wire[k] = {"role", "content"}
                        /\ wire[k].content = items[k].item.text

C9_Witness ==
    /\ Built
    /\ Req.kind = "chat"
    /\ "messages" \in DOMAIN params
    /\ Req.model = "llama3"
    /\ Len(Req.messages) = 2
    /\ Len(params.messages) = 4
    /\ "images" \in DOMAIN params.messages[1]
    /\ "content" \in DOMAIN params.messages[4]

\* C10: a streaming call hands back its sequence with no parameters built
\* and no transport call made; both happen only once the caller consumes
\* it, the call is made once, and the chunks come in the transport's order.
\* A non-streaming call makes one transport call and has a result only
\* after that call has returned.
C10_StreamIsLazyNonstreamIsMaterialized ==
    InCall =>
        /\ Len(transportCalls) <= 1
        /\ (Req.stream /\ ~consuming) =>
              (pc = "lazy" /\ params = <<>> /\ transportCalls = <<>>)
        /\ Req.stream =>
              /\ result = None
              /\ Len(delivered) = pos
              /\ pos <= Len(script)
              /\ \A i \in 1..Len(delivered) : delivered[i].text = script[i].text
              /\ delivered # <<>> => Len(transportCalls) = 1
        /\ ~Req.stream =>
              /\ delivered = <<>>
              /\ ~consuming
              /\ pc \in {"awaiting", "returned", "failed"}
              /\ pc = "awaiting" => (result = None /\ script = <<>>)
              /\ (result # None) =
                    (pc = "returned" /\ script # <<>>
                     /\ Len(transportCalls) = 1)

C10_Witness ==
    /\ InCall
    /\ Req.stream
    /\ pc = "streaming"
    /\ Len(script) = MaxChunks
    /\ Len(delivered) = 1
    /\ Len(transportCalls) = 1

====
